---------------------------- MODULE Spec2Model ----------------------------
(***************************************************************************)
(* A model of the speech-processing library src/SSARdsp.js: the complex    *)
(* FFT pair, autocorrelation, Levinson-Durbin, the IIR synthesis filter,   *)
(* the linear-interpolation resampler, the autocorrelation pitch detector  *)
(* and the k-means vector quantizer.                                       *)
(*                                                                         *)
(* Every library function is synchronous and keeps no state across calls,  *)
(* so each component has one variable holding the frame of one call (its   *)
(* arguments, its locals under the source's names, a pc and its outcome),  *)
(* and one specification whose Init draws the arguments from bounded sets. *)
(*                                                                         *)
(* Numbers.  JavaScript numbers are IEEE-754 doubles.  They are modelled   *)
(* as exact extended rationals: a record [n, d] in lowest terms with       *)
(*     d > 0            the finite value n/d  (n # 0)                       *)
(*     n = 0, d = 1     +0            n = 0, d = -1    -0                   *)
(*     n = 1, d = 0     +Infinity     n = -1, d = 0    -Infinity           *)
(*     n = 0, d = 0     NaN                                                *)
(* with the IEEE rules for signed zeros, infinities and NaN.  Rounding is  *)
(* not modelled: the inputs are small integers, whose sums and products    *)
(* are exact in doubles; a quotient is kept exact where a double rounds.   *)
(***************************************************************************)
EXTENDS Integers, Sequences, FiniteSets, TLC

---------------------------------------------------------------------------
(* IEEE-754 arithmetic on exact extended rationals *)

Abs(z) == IF z < 0 THEN -z ELSE z

RECURSIVE Gcd(_, _)
Gcd(x, y) == IF y = 0 THEN x ELSE Gcd(y, x % y)

NaN == [n |-> 0, d |-> 0]
PosInf == [n |-> 1, d |-> 0]
NegInf == [n |-> -1, d |-> 0]
Zero == [n |-> 0, d |-> 1]
NegZero == [n |-> 0, d |-> -1]
One == [n |-> 1, d |-> 1]

\* the double holding the integer z
Num(z) == [n |-> z, d |-> 1]

\* the double num/den for integers num, den with den > 0 and num # 0
Norm(num, den) ==
    LET g == Gcd(Abs(num), den) IN [n |-> num \div g, d |-> den \div g]

IsNaN(x) == x.n = 0 /\ x.d = 0
IsInf(x) == x.n # 0 /\ x.d = 0
IsFinite(x) == x.d # 0
IsZero(x) == x.n = 0 /\ x.d # 0

\* the sign bit as +1 / -1 (of no meaning for NaN)
Sgn(x) == IF x.n > 0 THEN 1 ELSE IF x.n < 0 THEN -1 ELSE IF x.d < 0 THEN -1 ELSE 1

SignedZero(s) == IF s < 0 THEN NegZero ELSE Zero
SignedInf(s) == IF s < 0 THEN NegInf ELSE PosInf

\* unary minus
FNeg(x) == IF x.n = 0 THEN [n |-> 0, d |-> -x.d] ELSE [n |-> -x.n, d |-> x.d]

\* x + y
FAdd(x, y) ==
    IF IsNaN(x) \/ IsNaN(y) THEN NaN
    ELSE IF IsInf(x) /\ IsInf(y) THEN (IF x.n = y.n THEN x ELSE NaN)
    ELSE IF IsInf(x) THEN x
    ELSE IF IsInf(y) THEN y
    ELSE IF IsZero(x) /\ IsZero(y) THEN (IF x.d < 0 /\ y.d < 0 THEN NegZero ELSE Zero)
    ELSE LET g == Gcd(Abs(x.d), Abs(y.d))
             num == x.n * (Abs(y.d) \div g) + y.n * (Abs(x.d) \div g)
             den == (Abs(x.d) \div g) * Abs(y.d)
         IN IF num = 0 THEN Zero ELSE Norm(num, den)

\* x - y
FSub(x, y) == FAdd(x, FNeg(y))

\* x * y
FMul(x, y) ==
    IF IsNaN(x) \/ IsNaN(y) THEN NaN
    ELSE IF (IsInf(x) /\ IsZero(y)) \/ (IsZero(x) /\ IsInf(y)) THEN NaN
    ELSE IF IsInf(x) \/ IsInf(y) THEN SignedInf(Sgn(x) * Sgn(y))
    ELSE IF IsZero(x) \/ IsZero(y) THEN SignedZero(Sgn(x) * Sgn(y))
    ELSE LET g1 == Gcd(Abs(x.n), y.d)
             g2 == Gcd(Abs(y.n), x.d)
         IN Norm((x.n \div g1) * (y.n \div g2), (x.d \div g2) * (y.d \div g1))

\* x / y
FDiv(x, y) ==
    IF IsNaN(x) \/ IsNaN(y) THEN NaN
    ELSE IF (IsInf(x) /\ IsInf(y)) \/ (IsZero(x) /\ IsZero(y)) THEN NaN
    ELSE IF IsInf(x) \/ IsZero(y) THEN SignedInf(Sgn(x) * Sgn(y))
    ELSE IF IsZero(x) \/ IsInf(y) THEN SignedZero(Sgn(x) * Sgn(y))
    ELSE LET g1 == Gcd(Abs(x.n), Abs(y.n))
             g2 == Gcd(y.d, x.d)
         IN Norm(Sgn(y) * (x.n \div g1) * (y.d \div g2), (x.d \div g2) * (Abs(y.n) \div g1))

\* x < y (false as soon as one side is NaN)
FLt(x, y) ==
    IF IsNaN(x) \/ IsNaN(y) THEN FALSE
    ELSE IF IsInf(x) THEN x.n < 0 /\ y # NegInf
    ELSE IF IsInf(y) THEN y.n > 0
    ELSE LET g == Gcd(Abs(x.d), Abs(y.d))
         IN x.n * (Abs(y.d) \div g) < y.n * (Abs(x.d) \div g)

\* x === y (NaN equals nothing, +0 equals -0)
FEq(x, y) ==
    IF IsNaN(x) \/ IsNaN(y) THEN FALSE
    ELSE IF IsInf(x) \/ IsInf(y) THEN x = y
    ELSE x.n = y.n /\ Abs(x.d) = Abs(y.d)

FGt(x, y) == FLt(y, x)
FLe(x, y) == FLt(x, y) \/ FEq(x, y)

\* Math.floor and Math.ceil
Floor(x) == IF x.d = 0 \/ x.n = 0 THEN x ELSE Num(x.n \div x.d)
Ceil(x) ==
    IF x.d = 0 \/ x.n = 0 THEN x
    ELSE LET c == -((-x.n) \div x.d)
         IN IF c = 0 THEN SignedZero(Sgn(x)) ELSE Num(c)

\* the sequence of integers as a sequence of doubles
NumSeq(s) == [k \in 1..Len(s) |-> Num(s[k])]

\* the sum of a sequence of doubles, accumulated left to right from +0
RECURSIVE FSum(_)
FSum(s) == IF Len(s) = 0 THEN Zero ELSE FAdd(FSum(SubSeq(s, 1, Len(s) - 1)), s[Len(s)])

\* all sequences over S of length lo..hi
SeqsOf(S, lo, hi) == UNION {[1..len -> S] : len \in lo..hi}

---------------------------------------------------------------------------
(* Complex numbers and the FFT pair *)

\* "x || 0" of the constructor: a falsy number (0, -0, NaN) becomes +0
OrZero(x) == IF x.n = 0 THEN Zero ELSE x

Complex(re, im) == [re |-> OrZero(re), im |-> OrZero(im)]

CAdd(this, other) == Complex(FAdd(this.re, other.re), FAdd(this.im, other.im))

CSub(this, other) == Complex(FSub(this.re, other.re), FSub(this.im, other.im))

CMul(this, other) ==
    LET r == FSub(FMul(this.re, other.re), FMul(this.im, other.im))
        i == FAdd(FMul(this.re, other.im), FMul(this.im, other.re))
    IN Complex(r, i)

\* t = new Complex(0, -2*Math.PI * k/N).cexp() of the combine loop.  The model
\* covers N <= 4, where the angle is 0 (k = 0: t = 1) or -pi/2 (N = 4, k = 1:
\* t = -i; the double Math.cos(-Math.PI/2) is 6.1e-17, taken as 0 here).
Twiddle(k, N) == IF k = 0 THEN Complex(One, Zero) ELSE Complex(Zero, Num(-1))

Ok(v) == [status |-> "ok", value |-> v]
Thrown(err) == [status |-> err, value |-> <<>>]

\* The combine loop of cfft, entry k (0-based) of the result of length N.
\* "t.mul(oddFFT[k])" builds the product and drops it: mul returns a new
\* Complex and t is left as it was, so t alone is added and subtracted.
Butterfly(evenFFT, oddFFT, k, N) ==
    LET hN == N \div 2
        kk == IF k < hN THEN k ELSE k - hN
        t == Twiddle(kk, N)
        dropped == CMul(t, oddFFT[kk + 1])
    IN IF k < hN THEN CAdd(evenFFT[kk + 1], t) ELSE CSub(evenFFT[kk + 1], t)

\* cfft(amplitudes): the outcome of the call, the array it returns (the
\* caller's array, overwritten) or the exception it throws.  An odd N > 1
\* makes hN fractional and "new Array(hN)" throws a RangeError.
RECURSIVE cfft(_)
cfft(amplitudes) ==
    LET N == Len(amplitudes) IN
    IF N <= 1 THEN Ok(amplitudes)
    ELSE IF N % 2 # 0 THEN Thrown("RangeError")
    ELSE LET hN == N \div 2
             even == [j \in 1..hN |-> amplitudes[2 * j - 1]]
             odd == [j \in 1..hN |-> amplitudes[2 * j]]
             evenFFT == cfft(even)
             oddFFT == cfft(odd)
         IN IF evenFFT.status # "ok" THEN evenFFT
            ELSE IF oddFFT.status # "ok" THEN oddFFT
            ELSE Ok([k \in 1..N |-> Butterfly(evenFFT.value, oddFFT.value, k - 1, N)])

\* icfft(amplitudes): conjugate in place, cfft, conjugate and scale by 1/N.
icfft(amplitudes) ==
    LET N == Len(amplitudes)
        iN == FDiv(One, Num(N))
        conj == [j \in 1..N |-> [amplitudes[j] EXCEPT !.im = FNeg(@)]]
        r == cfft(conj)
    IN IF r.status # "ok" THEN r
       ELSE Ok([j \in 1..N |-> [re |-> FMul(r.value[j].re, iN),
                                im |-> FMul(FNeg(r.value[j].im), iN)]])

---------------------------------------------------------------------------
(* State: one call frame per component *)

VARIABLES
    fft,        \* the transform calls made on one sequence
    ld,         \* one call of levinsonDurbin
    iir,        \* one call of iirFilter
    rs,         \* one down/up resampling round trip
    pitch,      \* one call of autocorr or pitchDetectionAutocorr
    vq,         \* one call of trainVqCodebook
    quant       \* one call of vectorQuantization

vars == <<fft, ld, iir, rs, pitch, vq, quant>>

\* the frame of a component the specification at hand does not call
Idle == [pc |-> "idle"]

\* reading index idx (0-based) of an array: undefined (NaN in arithmetic and
\* comparisons) outside it
At(arr, idx) == IF idx \in 0..(Len(arr) - 1) THEN arr[idx + 1] ELSE NaN

\* writing index idx (0-based) of a typed array: ignored outside it
Put(arr, idx, v) == IF idx \in 0..(Len(arr) - 1) THEN [arr EXCEPT ![idx + 1] = v] ELSE arr

\* new Float64Array(len)
Zeros(len) == [j \in 1..len |-> Zero]

---------------------------------------------------------------------------
(* The transform engine: cfft, then icfft on its result, or icfft alone *)

MaxSample == 1

FftLengths == {0, 1, 2, 3, 4}

\* Gaussian-integer samples
FftSamples == {Complex(Num(r), Num(m)) : r \in -1..MaxSample, m \in 0..MaxSample}

FftInputs == UNION {[1..len -> FftSamples] : len \in FftLengths}

FftInit ==
    /\ \E x \in FftInputs :
          fft = [pc |-> "start", x |-> x, calls |-> <<>>, status |-> "ok", amplitudes |-> x]
    /\ ld = Idle /\ iir = Idle /\ rs = Idle /\ pitch = Idle /\ vq = Idle /\ quant = Idle

\* amplitudes = cfft(amplitudes)
CallCfft ==
    /\ fft.pc = "start"
    /\ LET r == cfft(fft.amplitudes)
       IN fft' = [fft EXCEPT !.pc = "transformed", !.calls = Append(@, "cfft"),
                             !.status = r.status, !.amplitudes = r.value]
    /\ UNCHANGED <<ld, iir, rs, pitch, vq, quant>>

\* amplitudes = icfft(amplitudes), on the input or on the spectrum cfft returned
CallIcfft ==
    /\ fft.pc \in {"start", "transformed"}
    /\ fft.status = "ok"
    /\ LET r == icfft(fft.amplitudes)
       IN fft' = [fft EXCEPT !.pc = "inverted", !.calls = Append(@, "icfft"),
                             !.status = r.status, !.amplitudes = r.value]
    /\ UNCHANGED <<ld, iir, rs, pitch, vq, quant>>

FftNext == CallCfft \/ CallIcfft

---------------------------------------------------------------------------
(* Levinson-Durbin, one iteration of the loop over m per step *)

MaxOrder == 4

\* the values of R[0] and of the other lags (with wider ranges the exact
\* quotients at order MaxOrder no longer fit TLC's 32-bit integers)
LdEnergies == {0, 1, 2, 3}
LdLags == {-1, 0, 1, 2}

\* autocorrelation vectors of order+1 lags
LdInputs(order) ==
    {<<Num(r0)>> \o rest : r0 \in LdEnergies, rest \in [1..order -> {Num(r) : r \in LdLags}]}

\* lines 90-93
LdInit ==
    /\ \E order \in 0..MaxOrder : \E R \in LdInputs(order) :
          ld = [pc |-> "loop", R |-> R, order |-> order, m |-> 1, status |-> "ok",
                a |-> Put(Zeros(order + 1), 0, One),
                e |-> Put(Zeros(order + 1), 0, At(R, 0)),
                k |-> Zero]
    /\ fft = Idle /\ iir = Idle /\ rs = Idle /\ pitch = Idle /\ vq = Idle /\ quant = Idle

\* lines 95-98: sum = R[m] + a[1]*R[m-1] + ... + a[m-1]*R[1], added in that order
RECURSIVE LdSum(_, _, _, _)
LdSum(R, a, m, upto) ==
    IF upto = 0 THEN At(R, m)
    ELSE FAdd(LdSum(R, a, m, upto - 1), FMul(At(a, upto), At(R, m - upto)))

\* lines 101-103: a[j] += k * a[m - j] for j = 1 .. upto, in place and in
\* ascending j, so that a[m - j] is read as the earlier iterations left it
RECURSIVE LdUpdate(_, _, _, _)
LdUpdate(a, k, m, upto) ==
    IF upto = 0 THEN a
    ELSE LET prev == LdUpdate(a, k, m, upto - 1)
         IN Put(prev, upto, FAdd(At(prev, upto), FMul(k, At(prev, m - upto))))

\* line 99
Reflection(sum, energy) == FDiv(FNeg(sum), energy)

\* lines 95-104, one pass of the loop body
LdStep ==
    /\ ld.pc = "loop"
    /\ ld.m <= ld.order
    /\ LET m == ld.m
           sum == LdSum(ld.R, ld.a, m, m - 1)
           k == Reflection(sum, At(ld.e, m - 1))
           a1 == LdUpdate(Put(ld.a, m, k), k, m, m - 1)
           e1 == Put(ld.e, m, FMul(At(ld.e, m - 1), FSub(One, FMul(k, k))))
       IN ld' = [ld EXCEPT !.a = a1, !.e = e1, !.k = k, !.m = m + 1]
    /\ UNCHANGED <<fft, iir, rs, pitch, vq, quant>>

\* line 106
LdReturn ==
    /\ ld.pc = "loop"
    /\ ld.m > ld.order
    /\ ld' = [ld EXCEPT !.pc = "done"]
    /\ UNCHANGED <<fft, iir, rs, pitch, vq, quant>>

LdNext == LdStep \/ LdReturn

---------------------------------------------------------------------------
(* The IIR synthesis filter, one input sample per step.  The samples, the   *)
(* coefficients and the gain are integers, on which the doubles' sums and   *)
(* products are exact.                                                      *)

MaxInput == 3
MaxIirOrder == 3

IirSamples == {-1, 0, 1}
IirCoeffs == {-1, 0, 2}
IirGains == {1, -2}

\* coefficient vectors [1, a1, ..., a_order]
IirCoeffVectors ==
    UNION {{<<1>> \o c : c \in [1..order -> IirCoeffs]} : order \in 0..MaxIirOrder}

\* lines 111-113
IirInit ==
    /\ \E input \in SeqsOf(IirSamples, 0, MaxInput) :
       \E coeffs \in IirCoeffVectors :
       \E gain \in IirGains :
          iir = [pc |-> "loop", input |-> input, coeffs |-> coeffs, gain |-> gain,
                 order |-> Len(coeffs) - 1, i |-> 0, status |-> "ok",
                 output |-> [j \in 1..Len(input) |-> 0],
                 state |-> [j \in 1..(Len(coeffs) - 1) |-> 0]]
    /\ fft = Idle /\ ld = Idle /\ rs = Idle /\ pitch = Idle /\ vq = Idle /\ quant = Idle

\* lines 115-118: acc = input[i]*gain, then acc -= coeffs[j]*state[j-1], j = 1 .. upto
RECURSIVE IirAcc(_, _, _, _)
IirAcc(x, coeffs, state, upto) ==
    IF upto = 0 THEN x
    ELSE IirAcc(x, coeffs, state, upto - 1) - coeffs[upto + 1] * state[upto]

\* lines 120-122: state[j] = state[j-1] for j = order-1 down to from (>= 1)
RECURSIVE IirShiftDown(_, _)
IirShiftDown(state, from) ==
    IF from > Len(state) - 1 THEN state
    ELSE LET later == IirShiftDown(state, from + 1)
         IN [later EXCEPT ![from + 1] = later[from]]

\* the shift with the loop run upwards: every slot ends up holding state[0]
RECURSIVE IirShiftUp(_, _)
IirShiftUp(state, upto) ==
    IF upto < 1 THEN state
    ELSE LET earlier == IirShiftUp(state, upto - 1)
         IN [earlier EXCEPT ![upto + 1] = earlier[upto]]

IirDelayLineAscending(state, acc) ==
    LET shifted == IirShiftUp(state, Len(state) - 1)
    IN IF Len(state) = 0 THEN state ELSE [shifted EXCEPT ![1] = acc]

\* lines 120-123: the delay line after one sample; "state[0] = acc" on an
\* empty typed array (order 0) writes nothing
IirDelayLine(state, acc) ==
    LET shifted == IirShiftDown(state, 1)
    IN IF Len(state) = 0 THEN state ELSE [shifted EXCEPT ![1] = acc]

\* lines 114-124, one pass of the loop body
IirStep ==
    /\ iir.pc = "loop"
    /\ iir.i < Len(iir.input)
    /\ LET acc == IirAcc(iir.input[iir.i + 1] * iir.gain, iir.coeffs, iir.state, iir.order)
       IN iir' = [iir EXCEPT !.output = [@ EXCEPT ![iir.i + 1] = acc],
                             !.state = IirDelayLine(@, acc),
                             !.i = @ + 1]
    /\ UNCHANGED <<fft, ld, rs, pitch, vq, quant>>

\* line 125
IirReturn ==
    /\ iir.pc = "loop"
    /\ iir.i >= Len(iir.input)
    /\ iir' = [iir EXCEPT !.pc = "done"]
    /\ UNCHANGED <<fft, ld, rs, pitch, vq, quant>>

IirNext == IirStep \/ IirReturn

---------------------------------------------------------------------------
(* The resampler and the down/up round trip of waveformCodingSynthesis *)

MaxSignal == 4
MaxFactor == 3

RsSamples == {-1, 0, 2}
RsRates == {8}

\* new Float64Array(len): NaN makes an empty array, a negative or infinite
\* length throws a RangeError
ArrayLengthOk(len) == IsNaN(len) \/ (IsFinite(len) /\ len.n >= 0)
ArrayLength(len) == IF IsNaN(len) THEN 0 ELSE len.n

\* lines 134-141: output[i]
ResampleAt(signal, ratio, i) ==
    LET pos == FMul(Num(i), ratio)
        low == Floor(pos)
        frac == FSub(pos, low)
    IN IF low.n + 1 < Len(signal)
       THEN FAdd(FMul(At(signal, low.n), FSub(One, frac)), FMul(At(signal, low.n + 1), frac))
       ELSE At(signal, low.n)

\* line 131
ResampleLength(len, ratio) == Ceil(FDiv(Num(len), ratio))

\* resample(signal, oldFs, newFs)
resample(signal, oldFs, newFs) ==
    LET ratio == FDiv(oldFs, newFs)
        newLength == ResampleLength(Len(signal), ratio)
    IN IF ~ArrayLengthOk(newLength) THEN Thrown("RangeError")
       ELSE Ok([j \in 1..ArrayLength(newLength) |-> ResampleAt(signal, ratio, j - 1)])

\* The rates of the first resample call: numSamples and numSamples/factor in
\* waveformCodingSynthesis (lines 274-275), fs and fs/2 in a direct round trip.
RsInit ==
    /\ \E x \in SeqsOf(RsSamples, 0, MaxSignal) :
          \/ \E factor \in 1..MaxFactor :
                rs = [pc |-> "start", fn |-> "waveformCodingSynthesis", originalSignal |-> x,
                      oldFs |-> Num(Len(x)), newFs |-> FDiv(Num(Len(x)), Num(factor)),
                      downsampled |-> <<>>, out |-> <<>>, status |-> "ok"]
          \/ \E fs \in RsRates :
                rs = [pc |-> "start", fn |-> "resample", originalSignal |-> x,
                      oldFs |-> Num(fs), newFs |-> FDiv(Num(fs), Num(2)),
                      downsampled |-> <<>>, out |-> <<>>, status |-> "ok"]
    /\ fft = Idle /\ ld = Idle /\ iir = Idle /\ pitch = Idle /\ vq = Idle /\ quant = Idle

\* line 276: downsampled = resample(originalSignal, numSamples, reducedSamples)
Downsample ==
    /\ rs.pc = "start"
    /\ LET r == resample(NumSeq(rs.originalSignal), rs.oldFs, rs.newFs)
       IN rs' = [rs EXCEPT !.pc = IF r.status = "ok" THEN "downsampled" ELSE "done",
                           !.downsampled = r.value, !.status = r.status]
    /\ UNCHANGED <<fft, ld, iir, pitch, vq, quant>>

\* line 277: return resample(downsampled, reducedSamples, numSamples)
Upsample ==
    /\ rs.pc = "downsampled"
    /\ LET r == resample(rs.downsampled, rs.newFs, rs.oldFs)
       IN rs' = [rs EXCEPT !.pc = "done", !.out = r.value, !.status = r.status]
    /\ UNCHANGED <<fft, ld, iir, pitch, vq, quant>>

RsNext == Downsample \/ Upsample

---------------------------------------------------------------------------
(* Autocorrelation and the pitch detector *)

MaxPitchSignal == 4

PitchSamples == {-1, 0, 1}
PitchFs == {12}
PitchMaxFreqs == {3, 4, 6, 12, 24}
PitchMinFreqs == {2, 3, 6}

\* lines 79-83: ac[lag], the products added from i = 0 up to i = upto
RECURSIVE AcSum(_, _, _)
AcSum(signal, lag, upto) ==
    IF upto < 0 THEN Zero
    ELSE FAdd(AcSum(signal, lag, upto - 1), FMul(At(signal, upto), At(signal, upto + lag)))

\* autocorr(signal)
autocorr(signal) ==
    LET n == Len(signal)
    IN [j \in 1..n |-> AcSum(signal, j - 1, n - (j - 1) - 1)]

\* Math.max(...ac): -Infinity for no argument, NaN if an argument is NaN
RECURSIVE MathMax(_)
MathMax(s) ==
    IF Len(s) = 0 THEN NegInf
    ELSE LET rest == MathMax(SubSeq(s, 1, Len(s) - 1))
             last == s[Len(s)]
         IN IF IsNaN(rest) \/ IsNaN(last) THEN NaN
            ELSE IF FLt(rest, last) THEN last ELSE rest

\* lines 242-249: the peak search over lags minLag .. upto, as [peakLag, maxVal]
RECURSIVE PeakSearch(_, _, _)
PeakSearch(normalized, minLag, upto) ==
    IF upto <= minLag THEN [peakLag |-> minLag, maxVal |-> At(normalized, minLag)]
    ELSE LET sofar == PeakSearch(normalized, minLag, upto - 1)
         IN IF FGt(At(normalized, upto), sofar.maxVal)
            THEN [peakLag |-> upto, maxVal |-> At(normalized, upto)]
            ELSE sofar

\* line 250, negated: the peak passes the voicing threshold (0.5 is 1/2)
VoicedLoose(maxVal) == ~FLe(maxVal, FDiv(One, Num(2)))

Voiced(maxVal) == ~FLt(maxVal, FDiv(One, Num(2)))

\* pitchDetectionAutocorr(signal, fs, minFreq, maxFreq), for fs, minFreq,
\* maxFreq positive integers (the lags are then finite integers)
pitchDetectionAutocorr(signal, fs, minFreq, maxFreq) ==
    LET ac == autocorr(signal)
        maxAuto == MathMax(ac)
        normalized == [j \in 1..Len(ac) |-> FDiv(ac[j], maxAuto)]
        minLag == Floor(FDiv(Num(fs), Num(maxFreq))).n
        maxLag == Floor(FDiv(Num(fs), Num(minFreq))).n
        peak == PeakSearch(normalized, minLag, maxLag - 1)
    IN IF FEq(maxAuto, Zero) THEN Ok(Zero)
       ELSE IF ~Voiced(peak.maxVal) THEN Ok(Zero)
       ELSE Ok(FDiv(Num(fs), Num(peak.peakLag)))

PitchInit ==
    /\ \E signal \in SeqsOf(PitchSamples, 0, MaxPitchSignal) :
       \E fs \in PitchFs : \E minFreq \in PitchMinFreqs : \E maxFreq \in PitchMaxFreqs :
          pitch = [pc |-> "start", fn |-> "none", signal |-> signal, fs |-> fs,
                   minFreq |-> minFreq, maxFreq |-> maxFreq,
                   status |-> "ok", result |-> <<>>]
    /\ fft = Idle /\ ld = Idle /\ iir = Idle /\ rs = Idle /\ vq = Idle /\ quant = Idle

\* ac = autocorr(signal)
CallAutocorr ==
    /\ pitch.pc = "start"
    /\ pitch' = [pitch EXCEPT !.pc = "done", !.fn = "autocorr",
                              !.result = autocorr(NumSeq(pitch.signal))]
    /\ UNCHANGED <<fft, ld, iir, rs, vq, quant>>

\* f0 = pitchDetectionAutocorr(signal, fs, minFreq, maxFreq)
CallPitchDetection ==
    /\ pitch.pc = "start"
    /\ LET r == pitchDetectionAutocorr(NumSeq(pitch.signal), pitch.fs,
                                       pitch.minFreq, pitch.maxFreq)
       IN pitch' = [pitch EXCEPT !.pc = "done", !.fn = "pitchDetectionAutocorr",
                                 !.status = r.status, !.result = r.value]
    /\ UNCHANGED <<fft, ld, iir, rs, vq, quant>>

PitchNext == CallAutocorr \/ CallPitchDetection

---------------------------------------------------------------------------
(* The vector quantizer: nearest-codeword search, k-means training *)

\* the squared Euclidean distance of the inner loop over d (lines 171-174,
\* 211-214), the squares added from d = 0 up
RECURSIVE SqDist(_, _, _)
SqDist(u, v, upto) ==
    IF upto = 0 THEN Zero
    ELSE LET diff == FSub(u[upto], v[upto])
         IN FAdd(SqDist(u, v, upto - 1), FMul(diff, diff))

\* the comparison with ties going to the later codeword
CloserOrEqual(dist, minDist) == FLe(dist, minDist)

\* line 215 (and 175): codeword k replaces the best one so far
Closer(dist, minDist) == FLt(dist, minDist)

\* lines 208-219 (and 168-179): the search over codewords 0 .. upto-1 from
\* minDist = Infinity, minIdx = 0, as [minDist, minIdx]
RECURSIVE NearestCodeword(_, _, _)
NearestCodeword(codebook, feature, upto) ==
    IF upto = 0 THEN [minDist |-> PosInf, minIdx |-> 0]
    ELSE LET sofar == NearestCodeword(codebook, feature, upto - 1)
             dist == SqDist(feature, codebook[upto], Len(feature))
         IN IF Closer(dist, sofar.minDist)
            THEN [minDist |-> dist, minIdx |-> upto - 1]
            ELSE sofar

\* vectorQuantization(codebook, features)
vectorQuantization(codebook, features) ==
    [j \in 1..Len(features) |-> NearestCodeword(codebook, features[j], Len(codebook)).minIdx]

MaxCodebook == 2
MaxQuantFeatures == 2

\* feature vectors of dimension 1 and 2
QuantVectors(D) ==
    IF D = 1 THEN {<<v>> : v \in {0, 1, 5, 9, 10}} ELSE [1..D -> {0, 1}]

NumVectors(vs) == [j \in 1..Len(vs) |-> NumSeq(vs[j])]

QuantInit ==
    /\ \E D \in {1, 2} :
       \E codebook \in SeqsOf(QuantVectors(D), 0, MaxCodebook) :
       \E features \in SeqsOf(QuantVectors(D), 0, MaxQuantFeatures) :
          quant = [pc |-> "start", codebook |-> codebook, features |-> features,
                   indices |-> <<>>, status |-> "ok"]
    /\ fft = Idle /\ ld = Idle /\ iir = Idle /\ rs = Idle /\ pitch = Idle /\ vq = Idle

\* indices = vectorQuantization(codebook, features)
CallVectorQuantization ==
    /\ quant.pc = "start"
    /\ quant' = [quant EXCEPT !.pc = "done",
                              !.indices = vectorQuantization(NumVectors(quant.codebook),
                                                             NumVectors(quant.features))]
    /\ UNCHANGED <<fft, ld, iir, rs, pitch, vq>>

QuantNext == CallVectorQuantization

---------------------------------------------------------------------------
(* trainVqCodebook: the random seeding, then one k-means round per step *)

MaxFeatures == 3
MaxIter == 3

TrainCodebookSizes == {1, 2}
TrainTols == {0, 1}

TrainVectors(D) ==
    IF D = 1 THEN {<<0>>, <<1>>, <<3>>} ELSE {<<0, 0>>, <<2, 0>>, <<0, 2>>}

VqInit ==
    /\ \E D \in {1, 2} :
       \E features \in SeqsOf(TrainVectors(D), 0, MaxFeatures) :
       \E codebookSize \in TrainCodebookSizes :
       \E maxIter \in 0..MaxIter :
       \E tol \in TrainTols :
          vq = [pc |-> "seed", features |-> NumVectors(features),
                codebookSize |-> codebookSize, maxIter |-> maxIter, tol |-> tol,
                codebook |-> <<>>, before |-> <<>>, counts |-> <<>>,
                iter |-> 0, rounds |-> 0, changed |-> FALSE, status |-> "ok"]
    /\ fft = Idle /\ ld = Idle /\ iir = Idle /\ rs = Idle /\ pitch = Idle /\ quant = Idle

\* lines 157-162: each codeword a copy of a feature drawn at random, with
\* replacement; "features[0].length" of an empty feature set throws a TypeError
VqSeed ==
    /\ vq.pc = "seed"
    /\ IF Len(vq.features) = 0
       THEN vq' = [vq EXCEPT !.pc = "done", !.status = "TypeError"]
       ELSE \E drawn \in [1..vq.codebookSize -> 1..Len(vq.features)] :
               vq' = [vq EXCEPT !.pc = "loop",
                                !.codebook = [c \in 1..vq.codebookSize |-> vq.features[drawn[c]]]]
    /\ UNCHANGED <<fft, ld, iir, rs, pitch, quant>>

\* lines 167-181: labels[j], the nearest codeword of every feature
VqLabels(features, codebook) ==
    [j \in 1..Len(features) |-> NearestCodeword(codebook, features[j], Len(codebook)).minIdx]

\* lines 182-184: newCodebook[k][d] after the features 0 .. upto-1 were added
RECURSIVE VqAccumulate(_, _, _, _, _)
VqAccumulate(features, labels, k, d, upto) ==
    IF upto = 0 THEN Zero
    ELSE LET sofar == VqAccumulate(features, labels, k, d, upto - 1)
         IN IF labels[upto] = k THEN FAdd(sofar, features[upto][d]) ELSE sofar

\* lines 188-192: the sums of codeword k divided by its count; with a count of
\* 0 they stay the zeros newCodebook[k] was created with (line 166)
VqRecompute(sums, count, old) ==
    IF count > 0 THEN [d \in 1..Len(sums) |-> FDiv(sums[d], Num(count))] ELSE sums

\* a test of the displacement that ignores tol
DisplacedAtAll(dist, tol) == FGt(dist, Zero)

\* line 197: Math.sqrt(dist) > tol, for tol >= 0 the same as dist > tol*tol
Displaced(dist, tol) == FGt(dist, Num(tol * tol))

\* lines 164-199, one round: [codebook, counts, changed]
VqRound(features, codebook, tol) ==
    LET N == Len(features)
        D == Len(features[1])
        K == Len(codebook)
        labels == VqLabels(features, codebook)
        counts == [c \in 1..K |-> Cardinality({j \in 1..N : labels[j] = c - 1})]
        sums == [c \in 1..K |-> [d \in 1..D |-> VqAccumulate(features, labels, c - 1, d, N)]]
        newCodebook == [c \in 1..K |-> VqRecompute(sums[c], counts[c], codebook[c])]
    IN [codebook |-> newCodebook,
        counts |-> counts,
        changed |-> \E c \in 1..K : Displaced(SqDist(newCodebook[c], codebook[c], D), tol)]

\* lines 163-200: one pass of the loop body, then "if (!changed) break"
VqIterate ==
    /\ vq.pc = "loop"
    /\ vq.iter < vq.maxIter
    /\ LET r == VqRound(vq.features, vq.codebook, vq.tol)
       IN vq' = [vq EXCEPT !.before = vq.codebook, !.codebook = r.codebook,
                           !.counts = r.counts, !.changed = r.changed,
                           !.rounds = @ + 1,
                           !.iter = IF r.changed THEN @ + 1 ELSE @,
                           !.pc = IF r.changed THEN "loop" ELSE "break"]
    /\ UNCHANGED <<fft, ld, iir, rs, pitch, quant>>

\* line 202, reached by the break or by iter = maxIter
VqReturn ==
    /\ \/ vq.pc = "break"
       \/ vq.pc = "loop" /\ vq.iter >= vq.maxIter
    /\ vq' = [vq EXCEPT !.pc = "done"]
    /\ UNCHANGED <<fft, ld, iir, rs, pitch, quant>>

VqNext == VqSeed \/ VqIterate \/ VqReturn

---------------------------------------------------------------------------
(* Specifications: one component called, the others idle *)

SpecFFT == FftInit /\ [][FftNext]_vars

SpecLD == LdInit /\ [][LdNext]_vars

SpecIIR == IirInit /\ [][IirNext]_vars

SpecResample == RsInit /\ [][RsNext]_vars

SpecPitch == PitchInit /\ [][PitchNext]_vars

SpecQuant == QuantInit /\ [][QuantNext]_vars

SpecVQ == VqInit /\ [][VqNext]_vars

---------------------------------------------------------------------------
(* Claims *)

\* equality of two complex sequences, entry by entry, as === on the parts
CSeqEq(u, v) ==
    /\ Len(u) = Len(v)
    /\ \A j \in 1..Len(u) : FEq(u[j].re, v[j].re) /\ FEq(u[j].im, v[j].im)

\* exp(-2*pi*i*ex/N) for N in {1, 2, 4}: a power of -i
UnitRoot(N, ex) ==
    LET q == (ex * (4 \div N)) % 4
    IN [re |-> Num(IF q = 0 THEN 1 ELSE IF q = 2 THEN -1 ELSE 0),
        im |-> Num(IF q = 1 THEN -1 ELSE IF q = 3 THEN 1 ELSE 0)]

\* sum for n = 0 .. upto of x[n] * exp(-2*pi*i*k*n/N)
RECURSIVE DftSum(_, _, _)
DftSum(x, k, upto) ==
    LET term == CMul(x[upto + 1], UnitRoot(Len(x), k * upto))
    IN IF upto = 0 THEN term ELSE CAdd(DftSum(x, k, upto - 1), term)

\* the discrete Fourier transform by its defining sum
Dft(x) == [k \in 1..Len(x) |-> DftSum(x, k - 1, Len(x) - 1)]

\* C1: for an input of length 1, 2 or 4, cfft returns the discrete Fourier
\* transform of its input: X[k] = sum over n of x[n] * exp(-2*pi*i*k*n/N).
C1_CfftIsDft ==
    (fft.calls = <<"cfft">> /\ Len(fft.x) \in {1, 2, 4})
        => (fft.status = "ok" /\ CSeqEq(fft.amplitudes, Dft(fft.x)))

\* C2: for an input of length 1, 2 or 4, icfft(cfft(x)) equals x entry by entry.
C2_RoundTrip ==
    (fft.calls = <<"cfft", "icfft">> /\ Len(fft.x) \in {1, 2, 4})
        => (fft.status = "ok" /\ CSeqEq(fft.amplitudes, fft.x))

\* a step of the recursion met a prediction-error energy e[m-1] that is not
\* positive (NaN included)
LdBrokeDown == \E m \in 1..(ld.m - 1) : ~FGt(At(ld.e, m - 1), Zero)

\* C5: a call of levinsonDurbin that meets a zero or non-positive energy
\* e[m-1] at some step m <= order ends with a NumericalBreakdown error, and a
\* call that returns a coefficient vector returns finite coefficients only.
C5_BreakdownReported ==
    ld.pc = "done" =>
        /\ LdBrokeDown => ld.status = "NumericalBreakdown"
        /\ ld.status = "ok" => \A j \in 1..Len(ld.a) : IsFinite(ld.a[j])

\* the output sample i (0-based) that the difference equation gives from
\* the outputs before it: gain*x[i] - sum for j = 1 .. upto of coeffs[j]*y[i-j]
RECURSIVE IirEquation(_, _)
IirEquation(i, upto) ==
    IF upto = 0 THEN iir.gain * iir.input[i + 1]
    ELSE IirEquation(i, upto - 1)
         - (IF i - upto >= 0 THEN iir.coeffs[upto + 1] * iir.output[i - upto + 1] ELSE 0)

\* C7: iirFilter returns y of the length of x with
\* y[i] = gain*x[i] - sum for j = 1..order of coeffs[j]*y[i-j]; the delay line
\* starts all-zero and after sample i holds state[j] = y[i-j] (0 where i-j < 0).
C7_IirDifferenceEquation ==
    /\ Len(iir.output) = Len(iir.input)
    /\ \A s \in 0..(iir.i - 1) : iir.output[s + 1] = IirEquation(s, iir.order)
    /\ Len(iir.state) = iir.order
    /\ \A j \in 0..(iir.order - 1) :
          iir.state[j + 1] = (IF iir.i - 1 - j >= 0 THEN iir.output[iir.i - j] ELSE 0)

\* a call that returned after feedback from three earlier, distinct outputs
C7_Witness ==
    /\ iir.pc = "done"
    /\ iir.order = 3
    /\ iir.i = 3
    /\ iir.state[1] # iir.state[2] /\ iir.state[2] # iir.state[3] /\ iir.state[3] # 0
    /\ iir.coeffs[3] # 0
    /\ iir.output[3] # iir.gain * iir.input[3]

\* C6: down- then upsampling a non-empty signal, by waveformCodingSynthesis
\* with any factor or by resample(resample(x, fs, fs/2), fs/2, fs), returns a
\* signal of exactly the original length.
C6_RoundTripLength ==
    (rs.pc = "done" /\ Len(rs.originalSignal) >= 1)
        => (rs.status = "ok" /\ Len(rs.out) = Len(rs.originalSignal))

\* the autocorrelation of the integer signal at a lag, by its defining sum
RECURSIVE RefAcSum(_, _, _)
RefAcSum(sig, lag, upto) ==
    IF upto < 1 THEN 0 ELSE RefAcSum(sig, lag, upto - 1) + sig[upto] * sig[upto + lag]

RefAc(lag) == RefAcSum(pitch.signal, lag, Len(pitch.signal) - lag)

RefMinLag == pitch.fs \div pitch.maxFreq
RefMaxLag == pitch.fs \div pitch.minFreq

\* the lag window is non-empty and inside the signal
WindowInSignal == 0 <= RefMinLag /\ RefMinLag < RefMaxLag /\ RefMaxLag <= Len(pitch.signal)

\* the first lag of the window at which the autocorrelation is largest
RefPeakLag ==
    CHOOSE l \in RefMinLag..(RefMaxLag - 1) :
        \A l2 \in RefMinLag..(RefMaxLag - 1) :
            /\ RefAc(l2) <= RefAc(l)
            /\ l2 < l => RefAc(l2) < RefAc(l)

\* the largest autocorrelation over all lags
RefMaxAuto ==
    CHOOSE v \in {RefAc(l) : l \in 0..(Len(pitch.signal) - 1)} :
        \A l \in 0..(Len(pitch.signal) - 1) : RefAc(l) <= v

\* C8: with a lag window that is non-empty and inside the signal,
\* pitchDetectionAutocorr returns 0 for a silent signal; otherwise it returns
\* fs/peakLag when the autocorrelation at the window's peak lag is at least
\* half the global maximum, and 0 when it is less.
C8_PitchResult ==
    (pitch.pc = "done" /\ pitch.fn = "pitchDetectionAutocorr" /\ WindowInSignal) =>
        /\ pitch.status = "ok"
        /\ IF \A j \in 1..Len(pitch.signal) : pitch.signal[j] = 0
           THEN FEq(pitch.result, Zero)
           ELSE IF 2 * RefAc(RefPeakLag) >= RefMaxAuto
                THEN FEq(pitch.result, FDiv(Num(pitch.fs), Num(RefPeakLag)))
                ELSE FEq(pitch.result, Zero)

\* a voiced signal whose peak sits exactly on the threshold, past the
\* window's first lag
C8_Witness ==
    /\ pitch.pc = "done" /\ pitch.fn = "pitchDetectionAutocorr" /\ WindowInSignal
    /\ RefPeakLag > RefMinLag
    /\ 2 * RefAc(RefPeakLag) = RefMaxAuto
    /\ RefMaxAuto > 0
    /\ FEq(pitch.result, FDiv(Num(pitch.fs), Num(RefPeakLag)))

\* C9: with a lag window that is empty, non-positive or reaching beyond the
\* signal, pitchDetectionAutocorr fails with InvalidRange and returns no pitch.
C9_InvalidRange ==
    (/\ pitch.pc = "done" /\ pitch.fn = "pitchDetectionAutocorr"
     /\ Len(pitch.signal) >= 1
     /\ (RefMinLag >= RefMaxLag \/ RefMinLag <= 0 \/ RefMaxLag > Len(pitch.signal)))
        => pitch.status = "InvalidRange"

\* C10: a call with a zero-length signal fails with EmptyInput.
C10_EmptyInput ==
    (pitch.pc = "done" /\ Len(pitch.signal) = 0) => pitch.status = "EmptyInput"

\* the squared Euclidean distance of two integer vectors
RECURSIVE RefSqDist(_, _, _)
RefSqDist(u, v, upto) ==
    IF upto = 0 THEN 0
    ELSE RefSqDist(u, v, upto - 1) + (u[upto] - v[upto]) * (u[upto] - v[upto])

RefDist(f, k) == RefSqDist(quant.features[f], quant.codebook[k + 1], Len(quant.features[f]))

\* C4: for a non-empty codebook, vectorQuantization returns one index per
\* feature vector, each in [0, codebookSize), whose codeword is at the least
\* squared distance from the feature, no codeword of lower index being as near.
C4_NearestLowestIndex ==
    (quant.pc = "done" /\ Len(quant.codebook) >= 1) =>
        /\ Len(quant.indices) = Len(quant.features)
        /\ \A f \in 1..Len(quant.features) :
              /\ quant.indices[f] \in 0..(Len(quant.codebook) - 1)
              /\ \A k \in 0..(Len(quant.codebook) - 1) :
                    /\ RefDist(f, quant.indices[f]) <= RefDist(f, k)
                    /\ k < quant.indices[f] => RefDist(f, quant.indices[f]) < RefDist(f, k)

\* the codebook [0], [10] quantizing the tie [5] to 0 and [9] to 1
C4_Witness ==
    /\ quant.pc = "done"
    /\ quant.codebook = <<(<<0>>), (<<10>>)>>
    /\ quant.features = <<(<<5>>), (<<9>>)>>
    /\ quant.indices = <<0, 1>>

\* the mean of the features that the round just run assigned to codeword c
\* (1-based), an assignment being to the nearest codeword of the codebook
\* before the round, the lowest index winning a tie
AssignedTo(c) ==
    {j \in 1..Len(vq.features) :
        /\ \A c2 \in 1..Len(vq.before) :
              FLe(SqDist(vq.features[j], vq.before[c], Len(vq.features[j])),
                  SqDist(vq.features[j], vq.before[c2], Len(vq.features[j])))
        /\ \A c2 \in 1..(c - 1) :
              FLt(SqDist(vq.features[j], vq.before[c], Len(vq.features[j])),
                  SqDist(vq.features[j], vq.before[c2], Len(vq.features[j])))}

IsMeanOf(codeword, assigned) ==
    \A d \in 1..Len(codeword) :
        FEq(FMul(codeword[d], Num(Cardinality(assigned))),
            FSum([j \in 1..Len(vq.features) |->
                     IF j \in assigned THEN vq.features[j][d] ELSE Zero]))

SameVector(u, v) == Len(u) = Len(v) /\ \A d \in 1..Len(u) : FEq(u[d], v[d])

\* C3: after every round of trainVqCodebook, a codeword no feature was
\* assigned to has the value it had before the round, and every other
\* codeword is the mean of the features assigned to it.
C3_EmptyClusterUnchanged ==
    vq.rounds >= 1 =>
        \A c \in 1..vq.codebookSize :
            IF AssignedTo(c) = {}
            THEN SameVector(vq.codebook[c], vq.before[c])
            ELSE IsMeanOf(vq.codebook[c], AssignedTo(c))


\* a length the transform engine accepts: 1, 2, 4, 8, ...
RECURSIVE IsPowerOfTwo(_)
IsPowerOfTwo(N) ==
    IF N <= 0 THEN FALSE
    ELSE IF N = 1 THEN TRUE
    ELSE N % 2 = 0 /\ IsPowerOfTwo(N \div 2)

\* C11: a call of cfft or icfft on a sequence whose length is zero or not a
\* power of two fails with InvalidLength; a call returns a result only when
\* the length is a power of two.
C11_InvalidLength ==
    fft.pc # "start" =>
        /\ (~IsPowerOfTwo(Len(fft.x)) => fft.status = "InvalidLength")
        /\ (fft.status = "ok" => IsPowerOfTwo(Len(fft.x)))


\* determinant of the Toeplitz matrix [R|i-j|] restricted to the index
\* lists rows and cols, expanded along its first row (R holds integers)
RECURSIVE ToeplitzDet(_, _, _)
RECURSIVE ToeplitzDetRow(_, _, _, _)
ToeplitzDet(R, rows, cols) ==
    IF Len(rows) = 0 THEN 1 ELSE ToeplitzDetRow(R, rows, cols, Len(cols))

ToeplitzDetRow(R, rows, cols, upto) ==
    IF upto = 0 THEN 0
    ELSE LET others == [j \in 1..(Len(cols) - 1) |-> IF j < upto THEN cols[j] ELSE cols[j + 1]]
             entry == R[Abs(rows[1] - cols[upto]) + 1].n
             sign == IF upto % 2 = 1 THEN 1 ELSE -1
         IN ToeplitzDetRow(R, rows, cols, upto - 1)
            + sign * entry * ToeplitzDet(R, Tail(rows), others)

\* R[0..order] is positive semidefinite: every principal minor of its
\* Toeplitz matrix is non-negative
PositiveSemidefinite(R, order) ==
    \A mask \in [0..order -> BOOLEAN] :
        LET idx == SelectSeq([j \in 1..(order + 1) |-> j - 1], LAMBDA i : mask[i])
        IN ToeplitzDet(R, idx, idx) >= 0

\* R[0..order] is positive definite: every leading principal minor is positive
PositiveDefinite(R, order) ==
    \A n \in 0..order :
        LET idx == [j \in 1..(n + 1) |-> j - 1] IN ToeplitzDet(R, idx, idx) > 0

\* the coefficient update of step m on a scratch copy: every a[j], j in
\* 1..m-1, is replaced by a[j] + k*a[m-j] with both read from the vector of
\* the previous order
RefUpdate(prev, k, m) ==
    [j \in 1..Len(prev) |->
        IF j - 1 \in 1..(m - 1)
        THEN FAdd(At(prev, j - 1), FMul(k, At(prev, m - (j - 1))))
        ELSE IF j - 1 = m THEN k ELSE prev[j]]

\* the reference recursion after its steps 1..upto: coefficients and energies
RECURSIVE RefLevinson(_, _, _)
RefLevinson(R, order, upto) ==
    IF upto = 0
    THEN [a |-> Put(Zeros(order + 1), 0, One), e |-> Put(Zeros(order + 1), 0, At(R, 0))]
    ELSE LET before == RefLevinson(R, order, upto - 1)
             k == FDiv(FNeg(LdSum(R, before.a, upto, upto - 1)), At(before.e, upto - 1))
         IN [a |-> RefUpdate(before.a, k, upto),
             e |-> Put(before.e, upto,
                       FMul(At(before.e, upto - 1), FSub(One, FMul(k, k))))]

\* the error energies e[0] .. e[upto] are all finite and non-zero
NonZeroEnergies(e, upto) ==
    \A j \in 0..upto : IsFinite(At(e, j)) /\ ~IsZero(At(e, j))

\* C12: after every step m (in particular m >= 3) the coefficient vector
\* equals the one of the reference recursion, which updates from a scratch
\* copy of the previous order's coefficients, for every autocorrelation
\* input (a positive definite one) whose error energies are non-zero.
C12_UpdateReadsPreviousOrder ==
    LET done == ld.m - 1
        ref == RefLevinson(ld.R, ld.order, done)
    IN \/ \A j \in 0..ld.order : FEq(At(ld.a, j), At(ref.a, j))
       \/ ~(NonZeroEnergies(ld.e, done) /\ NonZeroEnergies(ref.e, done))
       \/ ~PositiveDefinite(ld.R, ld.order)


\* C13: for every positive-semidefinite autocorrelation input and every
\* order, e[0] = R[0] and 0 <= e[m] <= e[m-1] for every m in 1..order.
C13_EnergiesNonIncreasing ==
    \/ /\ FEq(At(ld.e, 0), At(ld.R, 0))
       /\ \A m \in 1..(ld.m - 1) :
             FLe(Zero, At(ld.e, m)) /\ FLe(At(ld.e, m), At(ld.e, m - 1))
    \/ ~PositiveSemidefinite(ld.R, ld.order)

\* C13, on the inputs whose Toeplitz matrix is positive definite (no error
\* energy of the recursion is zero there): e[0] = R[0] and
\* 0 <= e[m] <= e[m-1] for every m in 1..order.
C13_PositiveDefiniteCase ==
    \/ /\ FEq(At(ld.e, 0), At(ld.R, 0))
       /\ \A m \in 1..(ld.m - 1) :
             FLe(Zero, At(ld.e, m)) /\ FLe(At(ld.e, m), At(ld.e, m - 1))
    \/ ~PositiveDefinite(ld.R, ld.order)


\* the squared Euclidean norm of new - old, as a sum of squares
RefDisplacement2(old, new) ==
    FSum([d \in 1..Len(old) |-> FMul(FSub(new[d], old[d]), FSub(new[d], old[d]))])

\* the last round moved no codeword by more than tol
QuietRound ==
    \A c \in 1..Len(vq.codebook) :
        FLe(RefDisplacement2(vq.before[c], vq.codebook[c]), Num(vq.tol * vq.tol))

\* the rounds are at most maxIter; the loop goes on after a round exactly
\* when the round was not quiet and rounds are left; the codebook returned
\* has codebookSize vectors of the features' dimension
C14_Rounds ==
    /\ vq.rounds <= vq.maxIter
    /\ (vq.rounds > 0 /\ QuietRound) => vq.pc \in {"break", "done"}
    /\ vq.pc \in {"break", "done"} =>
          \/ vq.rounds > 0 /\ QuietRound
          \/ vq.rounds = vq.maxIter
    /\ vq.pc = "done" =>
          /\ vq.status = "ok"
          /\ Len(vq.codebook) = vq.codebookSize
          /\ \A c \in 1..Len(vq.codebook) : Len(vq.codebook[c]) = Len(vq.features[1])

\* what is left of the call at most: the rounds not yet run, then the return
VqRank ==
    IF vq.pc = "seed" THEN vq.maxIter + 3
    ELSE IF vq.pc = "loop" THEN (vq.maxIter - vq.rounds) + 2
    ELSE IF vq.pc = "break" THEN 1
    ELSE 0

\* C14: for every non-empty feature set and every random seeding,
\* trainVqCodebook returns after at most maxIter rounds (every step of the
\* call uses up one of the maxIter rounds or leaves the loop), at the end of
\* the first round whose displacements are all <= tol, with a codebook of
\* exactly codebookSize vectors of the features' dimension.
C14_TerminatesWithinMaxIter ==
    /\ [](Len(vq.features) > 0 => C14_Rounds)
    /\ [][Len(vq.features) > 0 => VqRank' < VqRank]_vars

\* a call on a non-empty feature set that returned at the end of a quiet
\* round with rounds to spare, after a round that was not quiet
C14_Witness ==
    /\ vq.pc = "done"
    /\ Len(vq.features) > 0
    /\ vq.rounds = 2
    /\ vq.rounds < vq.maxIter
    /\ QuietRound

====
